---- MODULE Spec2Model ----
(***************************************************************************)
(* Random EVM program generators: the arithmetic flavor                    *)
(* (program_generator/pg_arythmetic.py) and the validation flavor          *)
(* (program_generator/pg_validation.py).                                   *)
(*                                                                         *)
(* The bytecode is a sequence of instruction tokens [op, imm]: op is the   *)
(* opcode byte and imm the number of hex digits of the immediate that      *)
(* follows it.  Two opaque tokens stand for the memory preamble and the    *)
(* terminal placeholder; their imm is their whole length in characters.    *)
(* Random values are represented by the number of hex digits that          *)
(* hex(value)[2:] has before any padding.                                  *)
(***************************************************************************)
EXTENDS Integers, Sequences, FiniteSets, TLC

(***************************** bounds **************************************)
\* largest operations limit given on the command line
MaxOpsLimit == 2
\* loop iterations explored per synthesis call
MaxIters == 3
\* PUSHn / DUPn / SWAPn variants n drawn for a class token (1..MaxVariant)
MaxVariant == 2
\* programs per batch
MaxCount == 2

(************************* Python values ***********************************)
\* Python's None (the default of every limit and of dominant)
None == -1000
\* the string 'random' accepted as dominant by the validation flavor
RandomDominant == 310
\* the class tokens "PUSHclass", "DUPclass", "SWAPclass" of all_ops
PUSHclass == 300
DUPclass == 301
SWAPclass == 302
\* Python truthiness of an optional number
Truthy(x) == x # None /\ x # 0

Min(a, b) == IF a < b THEN a ELSE b
Max(a, b) == IF a > b THEN a ELSE b
Range(s) == {s[k] : k \in 1..Len(s)}

(************************* opcode families *********************************)
arithmetic_ops == <<1, 2, 3, 4, 5, 6, 7, 8, 9>>
exp_ops == <<10>>
bitwise_ops == <<22, 23, 24, 25>>
byte_ops == <<26, 11>>
shift_ops == <<27, 28, 29>>
comparison_ops == <<16, 17, 18, 19, 20>>
iszero_ops == <<21>>
simple_nullary_ops == <<48, 50, 51, 52, 56, 58, 65, 66, 67, 68, 69, 70, 71, 88, 89, 90>>
pop_ops == <<80>>
jumpdest_ops == <<91>>
push_ops == [n \in 1..32 |-> 95 + n]
dup_ops == [n \in 1..16 |-> 127 + n]
swap_ops == [n \in 1..16 |-> 143 + n]
memory_ops == <<53, 54, 55, 57, 81>>
mstore_ops == <<82, 83>>
jump_ops == <<86, 87>>
returndata_ops == <<61>>

\* population of the arithmetic flavor
all_ops_arith ==
  arithmetic_ops \o exp_ops \o bitwise_ops \o byte_ops \o shift_ops
    \o comparison_ops \o iszero_ops

\* population of the validation flavor
all_ops_valid ==
  arithmetic_ops \o exp_ops \o bitwise_ops \o byte_ops \o shift_ops
    \o comparison_ops \o iszero_ops \o simple_nullary_ops \o pop_ops
    \o jumpdest_ops \o memory_ops \o jump_ops \o mstore_ops \o returndata_ops
    \o <<PUSHclass, DUPclass, SWAPclass>>

all_ops(fl) == IF fl = "arith" THEN all_ops_arith ELSE all_ops_valid

IsClass(t) == t \in {PUSHclass, DUPclass, SWAPclass}

\* the variants of a class token
ClassOps(t) ==
  IF t = PUSHclass THEN push_ops
  ELSE IF t = DUPclass THEN dup_ops
  ELSE swap_ops

\* _resolve_op_class: v is the index random.choice draws (0-based)
resolve_op_class(t, v) == IF IsClass(t) THEN ClassOps(t)[v + 1] ELSE t

(***************************** catalog *************************************)
\* opcodes.csv: 'Removed from stack' of the opcodes that are not PUSH/DUP/SWAP
CsvRemoved(op) ==
  IF op \in {8, 9, 55, 57} THEN 3
  ELSE IF op \in {21, 25, 53, 80, 81, 86} THEN 1
  ELSE IF op \in Range(simple_nullary_ops) \cup {54, 61, 91} THEN 0
  ELSE 2

\* opcodes.csv: 'Added to stack' of the opcodes that are not PUSH/DUP/SWAP
CsvAdded(op) ==
  IF op \in {55, 57, 80, 82, 83, 86, 87, 91} THEN 0 ELSE 1

\* 'Removed from stack' of the catalog: PUSHn 0, DUPn n, SWAPn n+1
Removed(op) ==
  IF op \in Range(push_ops) THEN 0
  ELSE IF op \in Range(dup_ops) THEN op - 127
  ELSE IF op \in Range(swap_ops) THEN op - 142
  ELSE CsvRemoved(op)

\* 'Added to stack' of the catalog: PUSHn 1, DUPn n+1, SWAPn n+1
Added(op) ==
  IF op \in Range(push_ops) THEN 1
  ELSE IF op \in Range(dup_ops) THEN op - 126
  ELSE IF op \in Range(swap_ops) THEN op - 142
  ELSE CsvAdded(op)

\* 'Gas Used' of the catalog (arithmetic flavor population)
GasUsed(op) ==
  IF op \in {2, 4, 5, 6, 7, 11} THEN 5
  ELSE IF op \in {8, 9} THEN 8
  ELSE IF op = 10 THEN 10
  ELSE 3

\* hex digits of the catalog 'Parameter' of a PUSHn: the literal '00'
Parameter(op) == 2

\* common.arity: JUMP and JUMPI have their arity reduced by the destination
arity(op) == IF op \in Range(jump_ops) THEN Removed(op) - 1 ELSE Removed(op)

(***************************** tokens **************************************)
Opaque == 256
Tok(o, n) == [op |-> o, imm |-> n]
IsPushTok(t) == t.op \in Range(push_ops)
\* characters of a token in the hex string
TokLen(t) == IF t.op >= Opaque THEN t.imm ELSE 2 + t.imm

RECURSIVE HexLen(_)
HexLen(s) == IF s = <<>> THEN 0 ELSE TokLen(s[1]) + HexLen(Tail(s))

(**************************** templates ************************************)
\* characters of common.initial_mstore_bytecode(), an opaque template
InitialMstoreLen == 12
\* bytes of the destination push of common.jump_opcode_combo
JumpDestWidth == 4
\* characters of the final placeholder 'unreachable'
PlaceholderLen == 11

initial_mstore_bytecode == <<Tok(Opaque, InitialMstoreLen)>>

\* common.jump_opcode_combo: push target, jump opcode, landing marker
jump_opcode_combo(opcode) ==
  <<Tok(95 + JumpDestWidth, 2 * JumpDestWidth), Tok(opcode, 0), Tok(91, 0)>>

\* common.byte_size_push(2, value): PUSH2 and a 4-digit immediate
byte_size_push2 == Tok(97, 4)

final_unreachable_placeholder == <<Tok(Opaque + 1, PlaceholderLen)>>

(************************** operand pushes *********************************)
\* _random_push: len is the length of hex(value)[2:] for the drawn value
random_push(push, len) ==
  Tok(6 * 16 + push - 1, IF len < 2 * push THEN (2 * push - len) + len ELSE len)

\* _random_push_less_32: len is the length of hex(value)[2:], value in 0..31
random_push_less_32(len) ==
  Tok(96, IF len < 2 THEN (2 - len) + len ELSE len)

\* the widths random.randint(1, pushMax) is sampled at
SampleWidths == {1, 2, 32}
Widths(pushMax, rnd) ==
  IF rnd THEN {w \in SampleWidths : w <= pushMax} ELSE {pushMax}

\* One operand push: the token and the draws it consumes from the random
\* stream, each draw a pair <<value drawn, size of its range>>.
\*   "R" _random_push(pushMax, randomizePush)   "S" _random_push(1, False)
\*   "B" _random_push_less_32()                 "M" byte_size_push(2, randint)
SlotOutcomes(kind, pushMax, rnd) ==
  IF kind = "R" THEN
    {[toks |-> <<random_push(w, IF v = 0 THEN 1 ELSE 2 * w)>>,
      draws |-> (IF rnd THEN <<<<w - 1, pushMax>>>> ELSE <<>>) \o <<<<v, 2>>>>]
       : w \in Widths(pushMax, rnd), v \in 0..1}
  ELSE IF kind = "S" THEN
    {[toks |-> <<random_push(1, 1 + v)>>, draws |-> <<<<v, 2>>>>] : v \in 0..1}
  ELSE IF kind = "B" THEN
    {[toks |-> <<random_push_less_32(1 + v)>>, draws |-> <<<<v, 2>>>>] : v \in 0..1}
  ELSE
    {[toks |-> <<byte_size_push2>>, draws |-> <<<<v, 2>>>>] : v \in 0..1}

\* the operand pushes of one iteration, in emission order
RECURSIVE PushRuns(_, _, _)
PushRuns(slots, pushMax, rnd) ==
  IF slots = <<>> THEN {[toks |-> <<>>, draws |-> <<>>]}
  ELSE {[toks |-> h.toks \o r.toks, draws |-> h.draws \o r.draws]
          : h \in SlotOutcomes(Head(slots), pushMax, rnd),
            r \in PushRuns(Tail(slots), pushMax, rnd)}

(****************************** state **************************************)
VARIABLES
  flavor,            \* "arith" (pg_arythmetic.py) or "valid" (pg_validation.py)
  cfg,               \* the arguments of generate
  sample,            \* the members of the population the draws land on
  pc,                \* "start", "next", "loop", "done", "error"
  err,               \* the exception raised, "" if none
  i,                 \* index of the program under construction
  programs,          \* the programs list of generate
  output,            \* the bytecodes printed
  opsLimitMax,       \* generate: the limit after the default is applied
  opsLimit,          \* the limit of the current synthesis call
  dominant,          \* the dominant of the current synthesis call
  bytecode,          \* _generate_random_arithmetic: bytecode
  ops_count,         \* _generate_random_arithmetic: ops_count
  gas,               \* _generate_random_arithmetic: gas (arithmetic flavor)
  previous_nreturns, \* _generate_random_arithmetic: previous_nreturns
  needed_pushes,     \* needed_pushes of the last iteration
  op,                \* the opcode resolved in the last iteration
  carried,           \* values on the stack when the last iteration began
  mark,              \* Len(bytecode) when the last iteration began
  oppos,             \* index in bytecode of the last iteration's opcode
  iters,             \* iterations of the loop in this synthesis call
  rec,               \* whether the random stream is recorded for a second run
  tape,              \* the random stream drawn so far
  pos,               \* draws consumed from the stream in this run
  run,               \* 1 for the first run of generate, 2 for the second
  firstOut           \* the output of the first run

vars ==
  <<flavor, cfg, sample, pc, err, i, programs, output, opsLimitMax, opsLimit,
    dominant, bytecode, ops_count, gas, previous_nreturns, needed_pushes, op,
    carried, mark, oppos, iters, rec, tape, pos, run, firstOut>>

\* what a run of generate never changes
static == <<flavor, cfg, sample, rec, run, firstOut>>
\* the locals of the synthesis loop
locals ==
  <<bytecode, ops_count, gas, previous_nreturns, needed_pushes, op, carried,
    mark, oppos, iters>>

(************************** random stream **********************************)
\* the draws ds continue the stream from pos as the first run drew it
Consistent(ds) ==
  \A k \in 1..Len(ds) :
     pos + k <= Len(tape) => tape[pos + k] % ds[k][2] = ds[k][1]

TapeAfter(ds) ==
  IF ~rec \/ pos + Len(ds) <= Len(tape) THEN tape
  ELSE tape \o [k \in 1..(pos + Len(ds) - Len(tape)) |-> ds[Len(tape) - pos + k][1]]

PosAfter(ds) == IF rec THEN pos + Len(ds) ELSE pos

\* random.choice over the population: the 0-based indices sampled
ChoiceIdx(fl) == {k - 1 : k \in {j \in 1..Len(all_ops(fl)) : all_ops(fl)[j] \in sample}}
\* random.choice over the variants of a class
VariantIdx == 0..(MaxVariant - 1)

(************************** configurations *********************************)
\* generate's default operations limit
DefaultOpsLimit == 100

BaseCfg ==
  [count |-> 1, gasLimit |-> None, opsLimit |-> None, bytecodeLimit |-> None,
   dominant |-> None, push |-> 32, cleanStack |-> FALSE,
   randomizePush |-> FALSE, randomizeOpsLimit |-> FALSE]

OpsLimits == {None, -1, 0} \cup 1..MaxOpsLimit
\* byte-length limits: below the preamble of the validation flavor, just
\* above it, and one full-width push above it
BytecodeLimits == {-1, 0, 1, 14, 20}
GasLimits == {-1, 0, 5, 20}
\* the limits given, <<gasLimit, opsLimit, bytecodeLimit>>, at least one of
\* which is a number other than zero
LimitTriples(fl) ==
  {<<None, l, None>> : l \in OpsLimits \ {None, 0}}
    \cup {<<None, None, b>> : b \in BytecodeLimits \ {0}}
    \cup {<<None, l, 14>> : l \in {0, MaxOpsLimit}}
    \cup (IF fl = "arith"
          THEN {<<g, None, None>> : g \in GasLimits \ {0}} \cup {<<5, 0, None>>}
          ELSE {})

\* no limit given, or only zeros: generate falls back to DefaultOpsLimit
NoLimitTriples(fl) ==
  {<<None, None, None>>, <<None, 0, None>>, <<None, None, 0>>}
    \cup (IF fl = "arith" THEN {<<0, None, None>>} ELSE {})

\* dominants given: members of the population and 0xfe, which is in neither
Dominants(fl) ==
  IF fl = "arith" THEN {1, 10, 96, 254}
  ELSE {1, 10, 81, PUSHclass, DUPclass, RandomDominant, 254}

\* the configurations of a single synthesis call
Configs(fl) ==
  {[BaseCfg EXCEPT !.gasLimit = t[1], !.opsLimit = t[2], !.bytecodeLimit = t[3],
                   !.cleanStack = c]
      : t \in LimitTriples(fl), c \in BOOLEAN}
  \cup
  {[BaseCfg EXCEPT !.opsLimit = MaxOpsLimit, !.dominant = d, !.cleanStack = c]
      : d \in Dominants(fl), c \in BOOLEAN}
  \cup
  {[BaseCfg EXCEPT !.opsLimit = MaxOpsLimit, !.push = p] : p \in {0, 1, 33}}
  \cup
  (IF fl = "arith" THEN {}
   ELSE {[BaseCfg EXCEPT !.opsLimit = MaxOpsLimit, !.push = p, !.cleanStack = c,
                         !.randomizePush = TRUE]
           : p \in {2, 32}, c \in BOOLEAN}
        \cup
        {[BaseCfg EXCEPT !.opsLimit = t[1], !.bytecodeLimit = t[2],
                         !.cleanStack = TRUE, !.randomizeOpsLimit = TRUE]
           : t \in {<<None, 14>>, <<0, 14>>, <<-1, None>>, <<MaxOpsLimit, None>>}})

\* the configurations in which only the default limit ends the loop
NoLimitConfigs(fl) ==
  {[BaseCfg EXCEPT !.gasLimit = t[1], !.opsLimit = t[2], !.bytecodeLimit = t[3],
                   !.cleanStack = c]
      : t \in NoLimitTriples(fl), c \in BOOLEAN}

\* members of each family the draws land on
SampleArith == {1, 8, 10, 25, 26, 27, 16, 21}
SampleValid ==
  {1, 10, 26, 27, 48, 80, 91, 81, 82, 86, 87, PUSHclass, DUPclass, SWAPclass}
Sample(fl) == IF fl = "arith" THEN SampleArith ELSE SampleValid
\* the draws of the runs that only the default limit ends
SampleNoLimit(fl) == IF fl = "arith" THEN {1, 10, 21} ELSE {1, 48, PUSHclass}

InitLocals ==
  /\ bytecode = <<>> /\ ops_count = 0 /\ gas = 0 /\ previous_nreturns = 0
  /\ needed_pushes = 0 /\ op = None /\ carried = 0 /\ mark = 0 /\ oppos = 0
  /\ iters = 0

InitRun ==
  /\ pc = "start" /\ err = "" /\ i = 0 /\ programs = <<>> /\ output = <<>>
  /\ opsLimitMax = None /\ opsLimit = None /\ dominant = None
  /\ InitLocals
  /\ tape = <<>> /\ pos = 0 /\ run = 1 /\ firstOut = <<>>

Init ==
  /\ flavor \in {"arith", "valid"}
  /\ \/ cfg \in Configs(flavor) /\ sample = Sample(flavor)
     \/ cfg \in NoLimitConfigs(flavor) /\ sample = SampleNoLimit(flavor)
  /\ rec = FALSE
  /\ InitRun

(****************************** generate ***********************************)
Raise(kind) ==
  /\ pc' = "error" /\ err' = kind
  /\ UNCHANGED <<static, i, programs, output, opsLimitMax, opsLimit, dominant,
                 locals, tape, pos>>

\* generate, up to its loop over the programs
Generate ==
  /\ pc = "start"
  /\ IF /\ flavor = "valid"
        /\ Truthy(cfg.dominant) /\ cfg.dominant # RandomDominant
        /\ cfg.dominant \notin Range(all_ops_valid)
     THEN Raise("ValueError")
     ELSE /\ opsLimitMax' =
               IF /\ ~Truthy(cfg.opsLimit) /\ ~Truthy(cfg.bytecodeLimit)
                  /\ (flavor = "arith" => ~Truthy(cfg.gasLimit))
               THEN DefaultOpsLimit ELSE cfg.opsLimit
          /\ programs' = <<>>
          /\ i' = 0
          /\ pc' = "next"
          /\ UNCHANGED <<static, err, output, opsLimit, dominant, locals, tape, pos>>

\* the preamble of the validation flavor: memory preallocation and one JUMP
Preamble == initial_mstore_bytecode \o jump_opcode_combo(86)

\* the locals of a synthesis call on entry to its loop
EnterLoop(code, ops, g) ==
  /\ bytecode' = code /\ ops_count' = ops /\ gas' = g
  /\ previous_nreturns' = 0 /\ needed_pushes' = 0 /\ op' = None
  /\ carried' = 0 /\ mark' = Len(code) /\ oppos' = 0 /\ iters' = 0
  /\ pc' = "loop"

\* what random.randint(1, opsLimitMax) is sampled at
LimitDraws(m) == {l \in 1..m : l <= MaxOpsLimit \/ l = m}

\* validation flavor: one round of generate's loop, up to the while loop of
\* _generate_random_arithmetic
BeginProgramValid ==
  /\ pc = "next" /\ flavor = "valid" /\ i < cfg.count
  /\ IF cfg.randomizeOpsLimit /\ opsLimitMax = None THEN Raise("TypeError")
     ELSE IF cfg.randomizeOpsLimit /\ opsLimitMax < 1 THEN Raise("ValueError")
     ELSE
       \E l \in (IF cfg.randomizeOpsLimit THEN LimitDraws(opsLimitMax)
                 ELSE {opsLimitMax}) :
       \E ci \in (IF cfg.dominant = RandomDominant THEN ChoiceIdx("valid") ELSE {0}) :
         LET rnd == cfg.dominant = RandomDominant
             tokn == IF rnd THEN all_ops_valid[ci + 1] ELSE cfg.dominant
         IN \E vi \in (IF rnd /\ IsClass(tokn) THEN VariantIdx ELSE {0}) :
            LET ds == (IF cfg.randomizeOpsLimit THEN <<<<l - 1, opsLimitMax>>>> ELSE <<>>)
                      \o (IF rnd THEN <<<<ci, Len(all_ops_valid)>>>> ELSE <<>>)
                      \o (IF rnd /\ IsClass(tokn)
                          THEN <<<<vi, Len(ClassOps(tokn))>>>> ELSE <<>>)
            IN /\ Consistent(ds)
               /\ IF cfg.push < 1 \/ cfg.push > 32 THEN Raise("ValueError")
                  ELSE /\ opsLimit' = l
                       /\ dominant' = (IF rnd THEN resolve_op_class(tokn, vi) ELSE tokn)
                       /\ EnterLoop(Preamble, 0, 0)
                       /\ tape' = TapeAfter(ds) /\ pos' = PosAfter(ds)
                       /\ UNCHANGED <<static, err, i, programs, output, opsLimitMax>>

\* arithmetic flavor: one round of generate's loop, up to the while loop of
\* _generate_random_arithmetic
BeginProgramArith ==
  /\ pc = "next" /\ flavor = "arith" /\ i < cfg.count
  /\ IF cfg.push < 1 \/ cfg.push > 32 THEN Raise("ValueError")
     ELSE
       \E pr \in PushRuns(IF cfg.cleanStack THEN <<>> ELSE <<"R">>, cfg.push, FALSE) :
         /\ Consistent(pr.draws)
         /\ IF Truthy(cfg.dominant) /\ cfg.dominant \notin Range(all_ops_arith)
            THEN Raise("ValueError")
            ELSE /\ opsLimit' = opsLimitMax
                 /\ dominant' = cfg.dominant
                 /\ EnterLoop(pr.toks, Len(pr.toks), 3 * Len(pr.toks))
                 /\ tape' = TapeAfter(pr.draws) /\ pos' = PosAfter(pr.draws)
                 /\ UNCHANGED <<static, err, i, programs, output, opsLimitMax>>

(*************************** the synthesis loop ****************************)
\* a slip: the byte-length limit compared with <= instead of <
LoopCondOffByOne ==
  /\ flavor = "arith" => (~Truthy(cfg.gasLimit) \/ gas < cfg.gasLimit)
  /\ ~Truthy(opsLimit) \/ ops_count < opsLimit
  /\ ~Truthy(cfg.bytecodeLimit) \/ HexLen(bytecode) <= 2 * cfg.bytecodeLimit

\* the condition of the while loop
LoopCond ==
  /\ flavor = "arith" => (~Truthy(cfg.gasLimit) \/ gas < cfg.gasLimit)
  /\ ~Truthy(opsLimit) \/ ops_count < opsLimit
  /\ ~Truthy(cfg.bytecodeLimit) \/ HexLen(bytecode) < 2 * cfg.bytecodeLimit

\* needed_pushes as the loop computes it
NeededPushes(fl, clean, rop, prev) ==
  IF fl = "arith" THEN Removed(rop) - 1
  ELSE IF clean THEN arity(rop) ELSE arity(rop) - prev

\* the asserts stripped, as if they were not there
AssertStripped(rop, clean) == FALSE

\* the assert of the memory_ops and mstore_ops branches fails
AssertFails(rop, clean) ==
  rop \in Range(memory_ops) \cup Range(mstore_ops) /\ ~clean

\* range(n) pushes of the kind k
Times(n, k) == [j \in 1..n |-> k]

\* validation flavor: the operand pushes emitted for the opcode, by family
SlotsValid(rop, clean, prev, np) ==
  IF rop \in Range(byte_ops)
    THEN (IF clean \/ prev = 0 THEN <<"R">> ELSE <<>>) \o <<"B">>
  ELSE IF rop \in Range(shift_ops)
    THEN (IF clean \/ prev = 0 THEN <<"R">> ELSE <<>>) \o <<"S">>
  ELSE IF rop \in Range(memory_ops) THEN Times(np, "M")
  ELSE IF rop \in Range(mstore_ops) THEN <<"R", "M">>
  ELSE Times(np, "R")

\* arithmetic flavor: what precedes the opcode, by family; the SWAP1 of the
\* exponent is the token 0x90
SlotsArith(rop, np) ==
  IF rop \in Range(arithmetic_ops) \cup Range(bitwise_ops) \cup Range(comparison_ops)
    THEN Times(np, "R")
  ELSE IF rop \in Range(exp_ops) THEN <<"S">>
  ELSE IF rop \in Range(byte_ops) THEN <<"B">>
  ELSE IF rop \in Range(shift_ops) THEN <<"S">>
  ELSE <<>>

\* a slip: one POP whatever the opcode returns, in both flavors
PopsOne(fl, clean, nreturns) == IF clean THEN <<Tok(80, 0)>> ELSE <<>>

\* the POPs that empty the stack after the opcode
Pops(fl, clean, nreturns) ==
  IF ~clean THEN <<>>
  ELSE IF fl = "arith" THEN <<Tok(80, 0)>>
  ELSE Times(nreturns, Tok(80, 0))

\* the draws that select the opcode: random.random(), random.choice over the
\* population, random.choice over the variants of a class
OpDraws(fl, coin, ci, tokn, vi) ==
  (IF Truthy(dominant) THEN <<<<coin, 2>>>> ELSE <<>>)
    \o (IF Truthy(dominant) /\ coin = 0 THEN <<>> ELSE <<<<ci, Len(all_ops(fl))>>>>)
    \o (IF fl = "valid" /\ IsClass(tokn)
        THEN <<<<vi, Len(ClassOps(tokn))>>>> ELSE <<>>)

\* validation flavor: one iteration of the while loop
IterationValid ==
  /\ pc = "loop" /\ flavor = "valid" /\ LoopCond /\ iters < MaxIters
  /\ \E coin \in (IF Truthy(dominant) THEN 0..1 ELSE {0}) :
     \E ci \in (IF Truthy(dominant) /\ coin = 0 THEN {0} ELSE ChoiceIdx("valid")) :
       LET tokn == IF Truthy(dominant) /\ coin = 0 THEN dominant
                   ELSE all_ops_valid[ci + 1]
       IN \E vi \in (IF IsClass(tokn) THEN VariantIdx ELSE {0}) :
          LET rop == resolve_op_class(tokn, vi)
              d0 == OpDraws("valid", coin, ci, tokn, vi)
              nreturns == Added(rop)
              np == NeededPushes("valid", cfg.cleanStack, rop, previous_nreturns)
              jump == rop \in Range(jump_ops)
          IN IF AssertFails(rop, cfg.cleanStack)
             THEN /\ Consistent(d0)
                  /\ pc' = "error" /\ err' = "AssertionError"
                  /\ op' = rop /\ needed_pushes' = np
                  /\ carried' = previous_nreturns
                  /\ mark' = Len(bytecode) /\ oppos' = 0
                  /\ iters' = iters + 1
                  /\ tape' = TapeAfter(d0) /\ pos' = PosAfter(d0)
                  /\ UNCHANGED <<static, i, programs, output, opsLimitMax, opsLimit,
                                 dominant, bytecode, ops_count, gas, previous_nreturns>>
             ELSE
               \E pr \in PushRuns(SlotsValid(rop, cfg.cleanStack, previous_nreturns, np),
                                  cfg.push, cfg.randomizePush) :
                 LET ds == d0 \o pr.draws
                     opcode == IF jump THEN jump_opcode_combo(rop)
                               ELSE IF rop \in Range(push_ops)
                                 THEN <<Tok(rop, Parameter(rop))>>
                               ELSE <<Tok(rop, 0)>>
                     pops == Pops("valid", cfg.cleanStack, nreturns)
                 IN /\ Consistent(ds)
                    /\ bytecode' = bytecode \o pr.toks \o opcode \o pops
                    /\ ops_count' = ops_count + np + (IF jump THEN 3 ELSE 1)
                                      + (IF cfg.cleanStack THEN nreturns ELSE 0)
                    /\ previous_nreturns' =
                         (IF cfg.cleanStack THEN previous_nreturns ELSE nreturns)
                    /\ op' = rop /\ needed_pushes' = np
                    /\ carried' = (IF cfg.cleanStack THEN 0 ELSE previous_nreturns)
                    /\ mark' = Len(bytecode)
                    /\ oppos' = Len(bytecode) + Len(pr.toks) + (IF jump THEN 2 ELSE 1)
                    /\ iters' = iters + 1
                    /\ tape' = TapeAfter(ds) /\ pos' = PosAfter(ds)
                    /\ UNCHANGED <<static, pc, err, i, programs, output, opsLimitMax,
                                   opsLimit, dominant, gas>>

\* arithmetic flavor: one iteration of the while loop
IterationArith ==
  /\ pc = "loop" /\ flavor = "arith" /\ LoopCond /\ iters < MaxIters
  /\ \E coin \in (IF Truthy(dominant) THEN 0..1 ELSE {0}) :
     \E ci \in (IF Truthy(dominant) /\ coin = 0 THEN {0} ELSE ChoiceIdx("arith")) :
       LET rop == IF Truthy(dominant) /\ coin = 0 THEN dominant
                  ELSE all_ops_arith[ci + 1]
           d0 == OpDraws("arith", coin, ci, rop, 0)
           np == NeededPushes("arith", cfg.cleanStack, rop, previous_nreturns)
           exp == rop \in Range(exp_ops)
           first == IF cfg.cleanStack THEN <<"R">> ELSE <<>>
       IN \E pr \in PushRuns(first \o SlotsArith(rop, np), cfg.push, FALSE) :
            LET ds == d0 \o pr.draws
                swap == IF exp THEN <<Tok(144, 0)>> ELSE <<>>
                pops == Pops("arith", cfg.cleanStack, Added(rop))
            IN /\ Consistent(ds)
               /\ bytecode' = bytecode \o pr.toks \o swap \o <<Tok(rop, 0)>> \o pops
               /\ ops_count' = ops_count + (IF cfg.cleanStack THEN 1 ELSE 0)
                                 + (IF exp THEN 1 ELSE 0) + np + 1
                                 + (IF cfg.cleanStack THEN 1 ELSE 0)
               /\ gas' = gas + (IF cfg.cleanStack THEN 3 ELSE 0)
                           + (IF exp THEN 3 ELSE 0) + 3 * np
                           + (IF exp THEN 60 ELSE GasUsed(rop))
                           + (IF cfg.cleanStack THEN 2 ELSE 0)
               /\ op' = rop /\ needed_pushes' = np
               /\ carried' = (IF cfg.cleanStack THEN 0 ELSE 1)
               /\ mark' = Len(bytecode)
               /\ oppos' = Len(bytecode) + Len(pr.toks) + Len(swap) + 1
               /\ iters' = iters + 1
               /\ tape' = TapeAfter(ds) /\ pos' = PosAfter(ds)
               /\ UNCHANGED <<static, pc, err, i, programs, output, opsLimitMax,
                              opsLimit, dominant, previous_nreturns>>

\* the Program a synthesis call returns
Program(code, tag) == [bytecode |-> code, tag |-> tag]

\* a slip that would put the newest program first
PrependProgram(ps, p) == <<p>> \o ps

\* programs.append(program)
AppendProgram(ps, p) == Append(ps, p)

\* the loop is left: the synthesis call returns its Program and generate
\* appends it to programs
ReturnProgram ==
  /\ pc = "loop" /\ ~LoopCond
  /\ IF flavor = "valid" /\ IsClass(dominant)
     THEN Raise("KeyError")
     ELSE /\ programs' =
               AppendProgram(programs,
                      IF flavor = "arith" THEN Program(bytecode, ops_count)
                      ELSE Program(bytecode \o final_unreachable_placeholder, dominant))
          /\ i' = i + 1
          /\ pc' = "next"
          /\ UNCHANGED <<static, err, output, opsLimitMax, opsLimit, dominant, locals,
                         tape, pos>>

\* generate prints the bytecode of every program
Output ==
  /\ pc = "next" /\ i = cfg.count
  /\ output' = [k \in 1..Len(programs) |-> programs[k].bytecode]
  /\ pc' = "done"
  /\ UNCHANGED <<static, err, i, programs, opsLimitMax, opsLimit, dominant, locals,
                 tape, pos>>

Next ==
  \/ Generate
  \/ BeginProgramValid
  \/ BeginProgramArith
  \/ IterationValid
  \/ IterationArith
  \/ ReturnProgram
  \/ Output

Spec == Init /\ [][Next]_vars

(***************************************************************************)
(* What the last iteration emitted, read back from the bytecode.           *)
(***************************************************************************)
\* an iteration has emitted an opcode in the current synthesis call
Emitted == op # None /\ oppos > 0
\* the tokens of the last iteration
LastTokens == SubSeq(bytecode, mark + 1, Len(bytecode))
\* operand pushes emitted before the opcode
PushesBefore == Cardinality({k \in (mark + 1)..(oppos - 1) : IsPushTok(bytecode[k])})
\* POPs emitted after the opcode
PopsAfter == Cardinality({k \in (oppos + 1)..Len(bytecode) : bytecode[k].op = 80})

\* stack depth after running the tokens from depth d, -1 on underflow
RECURSIVE StackRun(_, _)
StackRun(toks, d) ==
  IF toks = <<>> THEN d
  ELSE IF d < Removed(Head(toks).op) THEN -1
  ELSE StackRun(Tail(toks), d - Removed(Head(toks).op) + Added(Head(toks).op))

\* tokens of the template preamble, which the loop does not count
PreambleTokens == IF flavor = "valid" THEN Len(Preamble) ELSE 0

(***************************************************************************)
(* C1.  For every positive operations limit and no byte-length limit the   *)
(* loop of one synthesis call exits after a number of iterations bounded   *)
(* by the limit (every iteration emits at least its opcode), whatever is   *)
(* drawn.                                                                  *)
(***************************************************************************)
C1_IterationsBounded ==
  (pc = "loop" /\ opsLimit # None /\ opsLimit > 0 /\ cfg.bytecodeLimit = None)
     => iters <= opsLimit

(***************************************************************************)
(* C2.  A zero or negative limit (gas, operations, byte length) is         *)
(* rejected before any program is generated: no program is ever returned   *)
(* under such a configuration.                                             *)
(***************************************************************************)
BadLimit ==
  \/ cfg.opsLimit # None /\ cfg.opsLimit <= 0
  \/ cfg.bytecodeLimit # None /\ cfg.bytecodeLimit <= 0
  \/ flavor = "arith" /\ cfg.gasLimit # None /\ cfg.gasLimit <= 0

C2_BadLimitRejected == BadLimit => programs = <<>>

(***************************************************************************)
(* C3.  Carry discipline: after every iteration, the operand pushes        *)
(* emitted plus the values carried in are at least the declared input      *)
(* arity of the opcode, needed_pushes is not negative, and the tracked     *)
(* occupancy is not negative.                                              *)
(***************************************************************************)
C3_PushesCoverArity ==
  (~cfg.cleanStack /\ Emitted) => PushesBefore + carried >= Removed(op)

C3_CarrySafe ==
  (~cfg.cleanStack /\ Emitted) =>
     /\ PushesBefore + carried >= Removed(op)
     /\ needed_pushes >= 0
     /\ previous_nreturns >= 0

(***************************************************************************)
(* C4.  Clean discipline: after every iteration of either flavor the       *)
(* pushes emitted before the opcode equal its declared inputs, the POPs    *)
(* emitted after it equal its declared outputs, and running the tokens of  *)
(* the iteration from an empty stack never underflows and ends empty.      *)
(***************************************************************************)
C4_CleanStackZero ==
  (cfg.cleanStack /\ Emitted) =>
     /\ PushesBefore = Removed(op)
     /\ PopsAfter = Added(op)
     /\ StackRun(LastTokens, 0) = 0

\* a DUP2 was emitted under Clean discipline: two pushes, three POPs
C4_Witness ==
  cfg.cleanStack /\ Emitted /\ op = 129 /\ PushesBefore = 2 /\ PopsAfter = 3

(***************************************************************************)
(* C5.  Every EXP emitted by the loop is immediately preceded by a push    *)
(* of the configured full width, a PUSH1 with a two-digit immediate, and   *)
(* SWAP1, in this order.                                                   *)
(***************************************************************************)
C5_ExponentPattern ==
  (Emitted /\ op = 10) =>
     /\ oppos - 3 >= 1
     /\ bytecode[oppos - 3] = Tok(95 + cfg.push, 2 * cfg.push)
     /\ bytecode[oppos - 2] = Tok(96, 2)
     /\ bytecode[oppos - 1] = Tok(144, 0)

\* the part of C5 the arithmetic flavor keeps: PUSH1, SWAP1, EXP
C5_ArithExponentTail ==
  (flavor = "arith" /\ Emitted /\ op = 10) =>
     /\ oppos - 2 >= 1
     /\ bytecode[oppos - 2] = Tok(96, 2)
     /\ bytecode[oppos - 1] = Tok(144, 0)

(***************************************************************************)
(* C6.  Every PUSHn written to the bytecode is followed by an immediate    *)
(* of exactly 2*n hex digits.                                              *)
(***************************************************************************)
C6_ImmediateWidth ==
  \A k \in 1..Len(bytecode) :
     IsPushTok(bytecode[k]) => bytecode[k].imm = 2 * (bytecode[k].op - 95)

\* the part of C6 that holds: every push of the last iteration other than a
\* drawn PUSHn opcode, and every push of the arithmetic flavor
C6_OperandPushWidth ==
  \A k \in 1..Len(bytecode) :
     (IsPushTok(bytecode[k]) /\ (flavor = "arith" \/ (k > mark /\ k # oppos)))
       => bytecode[k].imm = 2 * (bytecode[k].op - 95)

(***************************************************************************)
(* C7.  When a byte-length limit is configured, the returned bytecode      *)
(* exceeds the limit by at most the bytes of one operation: one opcode,    *)
(* its largest possible operand set, and its discipline POPs.              *)
(***************************************************************************)
\* characters of the widest operand push, PUSH32
WidestPush == 2 + 2 * 32
\* characters of one operation on opcode o with the largest operands
OpCost(o) ==
  WidestPush * Removed(o)
    + (IF o \in Range(jump_ops) THEN 4
       ELSE IF o \in Range(push_ops) THEN 2 + 2 * (o - 95)
       ELSE 2)
    + 2 * Added(o)
\* the opcodes the draws resolve to
ResolvedSample ==
  {resolve_op_class(t, v) : t \in sample, v \in VariantIdx}
MaxOpCost ==
  CHOOSE c \in {OpCost(o) : o \in ResolvedSample} :
     \A o \in ResolvedSample : OpCost(o) <= c

C7_OvershootOneOperation ==
  (cfg.bytecodeLimit # None /\ cfg.bytecodeLimit > 0) =>
     \A k \in 1..Len(programs) :
        HexLen(programs[k].bytecode) <= 2 * cfg.bytecodeLimit + MaxOpCost

\* characters of the terminal placeholder the flavor appends
MarkerLen == IF flavor = "valid" THEN PlaceholderLen ELSE 0

\* C7 as amended: the program just returned is shorter than the limit plus
\* the last iteration plus the terminal placeholder; when the loop did not
\* run it is the preamble and the placeholder.
C7_OvershootWithMarker ==
  (pc = "next" /\ i >= 1 /\ cfg.bytecodeLimit # None /\ cfg.bytecodeLimit > 0) =>
     LET final == HexLen(programs[i].bytecode)
     IN IF iters = 0 THEN final = HexLen(bytecode) + MarkerLen
        ELSE final < 2 * cfg.bytecodeLimit + HexLen(LastTokens) + MarkerLen

\* a returned program of the validation flavor overshoots its limit by more
\* than its last iteration
C7_Witness ==
  /\ pc = "next" /\ i >= 1 /\ flavor = "valid" /\ iters >= 1
  /\ cfg.bytecodeLimit # None /\ cfg.bytecodeLimit > 0
  /\ HexLen(programs[i].bytecode) > 2 * cfg.bytecodeLimit + HexLen(LastTokens)

(***************************************************************************)
(* C10.  At the end of every iteration ops_count equals the number of      *)
(* instructions the loop has emitted so far (with the warm-up push of the  *)
(* arithmetic flavor under Carry).                                         *)
(***************************************************************************)
C10_OpsCountExact ==
  pc = "loop" => ops_count = Len(bytecode) - PreambleTokens

\* the part of C10 that holds: everywhere but the validation flavor under Carry
C10_OpsCountExactElsewhere ==
  (pc = "loop" /\ (flavor = "arith" \/ cfg.cleanStack))
     => ops_count = Len(bytecode) - PreambleTokens

(***************************************************************************)
(* Batches, and a second run of generate on the same seed.                 *)
(***************************************************************************)
SampleBatchArith == {10, 21}
SampleBatchValid == {48, 81, PUSHclass}
\* the draws of the batches with a random dominant
SampleBatchDominant == {48, PUSHclass}

BatchConfigs(fl) ==
  {[BaseCfg EXCEPT !.count = n, !.opsLimit = 1, !.push = 1, !.cleanStack = c,
                   !.dominant = d]
      : n \in 1..MaxCount, c \in BOOLEAN,
        d \in (IF fl = "arith" THEN {None, 10} ELSE {None})}
  \cup
  (IF fl = "arith" THEN {}
   ELSE {[BaseCfg EXCEPT !.count = n, !.opsLimit = 2, !.push = 1,
                         !.cleanStack = TRUE, !.randomizeOpsLimit = TRUE]
           : n \in 1..MaxCount})

\* validation flavor: a dominant drawn anew for every program of the batch
BatchDominantConfigs ==
  {[BaseCfg EXCEPT !.count = n, !.opsLimit = 1, !.push = 1, !.cleanStack = c,
                   !.dominant = RandomDominant]
      : n \in 1..MaxCount, c \in BOOLEAN}

InitBatch ==
  /\ flavor \in {"arith", "valid"}
  /\ \/ /\ cfg \in BatchConfigs(flavor)
        /\ sample = (IF flavor = "arith" THEN SampleBatchArith ELSE SampleBatchValid)
     \/ /\ flavor = "valid"
        /\ cfg \in BatchDominantConfigs
        /\ sample = SampleBatchDominant
  /\ rec = TRUE
  /\ InitRun

\* generate is run again: same seed, same configuration, another count
Rerun ==
  /\ pc = "done" /\ run = 1 /\ rec
  /\ \E n \in 1..MaxCount : cfg' = [cfg EXCEPT !.count = n]
  /\ firstOut' = output
  /\ run' = 2
  /\ pc' = "start" /\ err' = "" /\ i' = 0 /\ programs' = <<>> /\ output' = <<>>
  /\ opsLimitMax' = None /\ opsLimit' = None /\ dominant' = None
  /\ bytecode' = <<>> /\ ops_count' = 0 /\ gas' = 0 /\ previous_nreturns' = 0
  /\ needed_pushes' = 0 /\ op' = None /\ carried' = 0 /\ mark' = 0 /\ oppos' = 0
  /\ iters' = 0
  /\ pos' = 0
  /\ UNCHANGED <<flavor, sample, rec, tape>>

NextBatch ==
  \/ Generate
  \/ BeginProgramValid
  \/ BeginProgramArith
  \/ IterationValid
  \/ IterationArith
  \/ ReturnProgram
  \/ Output
  \/ Rerun

SpecBatch == InitBatch /\ [][NextBatch]_vars

(***************************************************************************)
(* C8.  A memory-read or memory-write opcode drawn under Carry discipline  *)
(* raises before the iteration emits anything: no Program is returned for  *)
(* the synthesis call and the batch prints nothing, whatever programs it   *)
(* had already generated.                                                  *)
(***************************************************************************)
C8_MemoryUnderCarryFails ==
  (op \in Range(memory_ops) \cup Range(mstore_ops) /\ ~cfg.cleanStack) =>
     /\ pc = "error" /\ err = "AssertionError"
     /\ Len(bytecode) = mark
     /\ Len(programs) = i
     /\ output = <<>>

\* the second program of a batch drew MLOAD under Carry: nothing is printed
C8_Witness ==
  /\ op = 81 /\ ~cfg.cleanStack /\ pc = "error"
  /\ i = 1 /\ Len(programs) = 1 /\ output = <<>>

DominantInPopulation ==
  /\ flavor = "valid" /\ Truthy(cfg.dominant)
  /\ cfg.dominant \in Range(all_ops_valid)

C11_DominantReturned ==
  DominantInPopulation =>
     /\ err # "KeyError"
     /\ \A k \in 1..Len(programs) : programs[k].tag = cfg.dominant

\* the part of C11 that holds for a concrete opcode: no failure at the
\* return, and the program carries the dominant
C11_ConcreteDominantReturned ==
  (DominantInPopulation /\ ~IsClass(cfg.dominant)) =>
     /\ err # "KeyError"
     /\ \A k \in 1..Len(programs) : programs[k].tag = cfg.dominant

\* the part of C11 about the loop: the opcode looked up in an iteration is
\* concrete, a class token having been resolved to a member of its family
C11_ClassResolvedInLoop ==
  (flavor = "valid" /\ op # None) => ~IsClass(op)

\* the part of C11 about rejection: a dominant outside all_ops, other than
\* 'random', raises ValueError before any program is generated
C11_OutsideRejected ==
  (/\ flavor = "valid" /\ Truthy(cfg.dominant) /\ cfg.dominant # RandomDominant
   /\ cfg.dominant \notin Range(all_ops_valid) /\ pc # "start")
     => pc = "error" /\ err = "ValueError" /\ programs = <<>> /\ iters = 0

\* a class-token dominant: the loop has run and the call has failed at its
\* return statement, with no program appended
C11_ClassDominantFails ==
  /\ DominantInPopulation /\ IsClass(cfg.dominant)
  /\ pc = "error" /\ err = "KeyError" /\ iters >= 1 /\ programs = <<>>

====
